---- MODULE Spec2Model ----
(***************************************************************************)
(* Model of app.py, the stock analysis dashboard.                          *)
(*                                                                         *)
(* The script runs top to bottom once per user interaction.  One run is    *)
(* two steps here: LoadData (lines 12-41, the style sheet is applied and   *)
(* the two CSV files are read, coerced, cleaned and sorted) and Run (lines *)
(* 43-166, the widget values are read, the date range is checked, and the  *)
(* price filter, the                                                       *)
(* per-model anomaly filters, the overlap join and the three price joins   *)
(* are computed).  The page layout, the charts and the explanation texts   *)
(* of tab 3 carry no state and are left out.  Over a price table with no   *)
(* row the run ends at the date inputs: RunWithoutDates.                   *)
(*                                                                         *)
(* A cell of a CSV file is a piece of text: DateCell(d, k, f) is text     *)
(* written in format f that reads as day d at time of day k (DayFormat     *)
(* names a day only and reads as 00:00, TimeFormat names day and time),    *)
(* NumCell(n) text that reads as the number n, Null an empty cell or one   *)
(* of the texts pd.read_csv takes for a missing value ('NA', 'null',       *)
(* 'N/A', 'nan', 'NaN'), NatText one of the texts 'NaT', 'nat', 'NAT',     *)
(* 'NAN', which pd.read_csv leaves as text and pd.to_datetime takes for a  *)
(* missing date, Junk any other text that reads as neither a date nor a    *)
(* number, such as 'not-a-date'.  The Date texts 'now' and 'today' are not *)
(* among the inputs.  A loaded Date is a timestamp, the number of ticks    *)
(* since day 0; a date picked on the page is a day number.  Widget values  *)
(* are the inputs of a run.                                                *)
(*                                                                         *)
(* The script does not pin its pandas: pandas_major is the major version   *)
(* of the installation, which decides how pd.to_datetime reads a column    *)
(* whose cells are not all in one format.                                  *)
(*                                                                         *)
(* Spec is the script run any number of times.  SpecRepeat is the same     *)
(* script over shorter files, where first_call keeps the widget values and *)
(* the outcome of the first run and repeated tells that a later run has    *)
(* completed, so that two runs with the same widget values can be          *)
(* compared.                                                               *)
(***************************************************************************)
EXTENDS Integers, Sequences, FiniteSets

\* ---------------------------------------------------------------- bounds
MaxDate == 2
MaxPriceRows == 2
MaxAnomRows == 2
MaxTick == 1
MaxRepeatRows == 1

\* ------------------------------------------------------------- constants
\* line 52
model_options == <<"baseline", "svm", "dbscan_pca", "dbscan_nonpca", "isolation tree">>

ModelSet == {model_options[i] : i \in DOMAIN model_options}

\* pd.to_datetime(errors='coerce') yields NaT, pd.to_numeric(errors='coerce')
\* yields NaN for a cell that does not parse.
NaT == -1
NaN == -1

\* st.error texts, lines 18, 58 and 84/166
MsgCss == "CSS file not found. Please ensure 'styles.css' is in the correct location."
MsgRange == "Error: Start Date must be before End Date."
MsgNoData == "No data available for the selected date range and ticker."

\* ---------------------------------------------------------------- inputs
Dates == 1..MaxDate
Tickers == {"ABC", "XYZ"}

\* The ticks of a day after 00:00, and the timestamp of tick k of day d.
Ticks == 1..MaxTick
TicksPerDay == MaxTick + 1
Timestamp(d, k) == d * TicksPerDay + k

\* The options of the two model selectboxes a run picks from (two of the
\* five of model_options).
ModelInputs == {"baseline", "svm"}

\* The formats of a Date cell: '2024-01-02' and '2024-01-02 09:30:00'.
DayFormat == "%Y-%m-%d"
TimeFormat == "%Y-%m-%d %H:%M:%S"

DateCell(d, k, f) == [kind |-> "date", day |-> d, tick |-> k, format |-> f]
NumCell(n) == [kind |-> "number", val |-> n]
Junk == [kind |-> "junk"]
Null == [kind |-> "null"]
NatText == [kind |-> "nat"]

\* The well-formed price cell of the row for tick k of day d and ticker t:
\* distinct keys carry distinct prices, so a price joined to the wrong key
\* shows.
PriceOf(d, k, t) == NumCell(10 * d + k + (IF t = "ABC" THEN 0 ELSE 5))

\* Flag columns vary for the two models a run can select; the other model
\* columns hold 0.
FlagRow(b, s) == [m \in ModelSet |-> IF m = "baseline" THEN b ELSE IF m = "svm" THEN s ELSE 0]

\* Rows of the price file.  A row whose Date does not parse is dropped
\* whatever its other cells are, so one such row stands for all of them.
\* Rows of ABC come with and without a time of day, and with 00:00 written
\* out.
PriceCsvRows ==
    {[Date |-> Junk, Ticker |-> "ABC", AdjClose |-> PriceOf(1, 0, "ABC")]}
    \cup {[Date |-> Null, Ticker |-> "ABC", AdjClose |-> PriceOf(1, 0, "ABC")]}
    \cup {[Date |-> NatText, Ticker |-> "ABC", AdjClose |-> PriceOf(1, 0, "ABC")]}
    \cup {[Date |-> DateCell(1, 0, DayFormat), Ticker |-> "ABC", AdjClose |-> Junk]}
    \cup {[Date |-> DateCell(d, 0, DayFormat), Ticker |-> "ABC",
           AdjClose |-> PriceOf(d, 0, "ABC")] : d \in Dates}
    \cup {[Date |-> DateCell(1, 0, DayFormat), Ticker |-> "XYZ",
           AdjClose |-> PriceOf(1, 0, "XYZ")]}
    \cup {[Date |-> DateCell(d, k, TimeFormat), Ticker |-> "ABC",
           AdjClose |-> PriceOf(d, k, "ABC")] : d \in Dates, k \in Ticks}
    \cup {[Date |-> DateCell(1, 0, TimeFormat), Ticker |-> "ABC",
           AdjClose |-> PriceOf(1, 0, "ABC")]}

\* Rows of the anomaly file: rows of ABC with every flag combination, rows
\* of ABC with a time of day (one with 00:00 written out) and rows of XYZ
\* flagged by both models.
AnomCsvRows ==
    {[Date |-> Junk, Ticker |-> "ABC", flags |-> FlagRow(1, 1)]}
    \cup {[Date |-> Null, Ticker |-> "ABC", flags |-> FlagRow(1, 1)]}
    \cup {[Date |-> NatText, Ticker |-> "ABC", flags |-> FlagRow(1, 1)]}
    \cup {[Date |-> DateCell(d, 0, DayFormat), Ticker |-> "ABC", flags |-> FlagRow(b, s)] :
             d \in Dates, b \in {0, 1}, s \in {0, 1}}
    \cup {[Date |-> DateCell(d, k, TimeFormat), Ticker |-> "ABC", flags |-> FlagRow(1, 1)] :
             d \in Dates, k \in Ticks}
    \cup {[Date |-> DateCell(1, 0, TimeFormat), Ticker |-> "ABC", flags |-> FlagRow(1, 1)]}
    \cup {[Date |-> DateCell(1, 0, DayFormat), Ticker |-> "XYZ", flags |-> FlagRow(1, 1)]}

SeqsUpTo(S, n) == UNION {[1..k -> S] : k \in 0..n}

\* The pandas installations the script runs on: before 2.0, and 2.0 or
\* later.
PandasMajors == {1, 2}

VARIABLES
    pandas_major,
    css_file, price_csv, anom_csv,
    pc,
    stock_df, full_data_df,
    start_date, end_date, selected_ticker, model_1, model_2,
    defined, errors,
    filtered_stock_df,
    model_1_anomalies, model_2_anomalies, overlapping_anomalies,
    model_1_merged, model_2_merged, overlapping_merged,
    first_call, repeated

build == <<pandas_major>>
files == <<css_file, price_csv, anom_csv>>
tables == <<stock_df, full_data_df>>
widgets == <<start_date, end_date, selected_ticker, model_1, model_2>>
views == <<filtered_stock_df, model_1_anomalies, model_2_anomalies, overlapping_anomalies,
           model_1_merged, model_2_merged, overlapping_merged>>
history == <<first_call, repeated>>
vars == <<build, files, pc, tables, widgets, defined, errors, views, history>>

\* ---------------------------------------------------------------- loader
\* lines 13-18 and 21: load_css shows an error when styles.css cannot be
\* opened.
load_css(present) == IF present THEN <<>> ELSE <<MsgCss>>

\* The reading of one cell by itself (dateutil): any date text parses.
parse_cell(c) == IF c.kind = "date" THEN Timestamp(c.day, c.tick) ELSE NaT

\* The cells pd.to_datetime takes for a missing date: a missing value and a
\* text among 'NaT', 'nat', 'NAT', 'NAN'.
is_null_date(c) == c.kind \in {"null", "nat"}

\* The format pandas 2 takes for a column: that of its first cell that is
\* not a missing date, none when that cell does not read as a date or every
\* cell is a missing date.
NoFormat == "none"

first_non_null(col) ==
    IF \A i \in DOMAIN col : is_null_date(col[i]) THEN Null
    ELSE col[CHOOSE i \in DOMAIN col :
                /\ ~is_null_date(col[i])
                /\ \A j \in DOMAIN col : j < i => is_null_date(col[j])]

guess_datetime_format(col) ==
    IF first_non_null(col).kind = "date" THEN first_non_null(col).format ELSE NoFormat

\* The reading of one cell in a given format.
parse_cell_as(c, f) ==
    IF c.kind = "date" /\ c.format = f THEN Timestamp(c.day, c.tick) ELSE NaT

\* pd.to_datetime(column, errors='coerce'), line 33 and line 40.  Before
\* pandas 2.0 every cell is read by itself.  From 2.0 on all cells are read
\* in the format of the first cell that is not a missing date, a cell in
\* another format becoming NaT; when no format can be taken from that cell,
\* every cell is read by itself.  A missing date is NaT either way.
to_datetime(col, major) ==
    IF major = 1 \/ guess_datetime_format(col) = NoFormat
    THEN [i \in DOMAIN col |-> parse_cell(col[i])]
    ELSE [i \in DOMAIN col |-> parse_cell_as(col[i], guess_datetime_format(col))]

\* A column of a file.
DateColumn(csv) == [i \in DOMAIN csv |-> csv[i].Date]

\* pd.to_numeric(..., errors='coerce'), line 34
to_numeric(c) == IF c.kind = "number" THEN c.val ELSE NaN

\* lines 32-34: the header names are stripped, then Date and Adj Close are
\* coerced, Date as a column and Adj Close cell by cell.
ParsePrices(csv, major) ==
    [i \in DOMAIN csv |->
        [Date |-> to_datetime(DateColumn(csv), major)[i], Ticker |-> csv[i].Ticker,
         AdjClose |-> to_numeric(csv[i].AdjClose)]]

\* lines 39-40
ParseAnomalies(csv, major) ==
    [i \in DOMAIN csv |->
        [Date |-> to_datetime(DateColumn(csv), major)[i], Ticker |-> csv[i].Ticker,
         flags |-> csv[i].flags]]

\* Mutant of dropna_prices: only the Date column is checked.
dropna_prices_date_only(df) == SelectSeq(df, LAMBDA r : r.Date # NaT)

\* line 35: dropna(subset=['Date', 'Adj Close'])
dropna_prices(df) == SelectSeq(df, LAMBDA r : r.Date # NaT /\ r.AdjClose # NaN)

\* line 41: dropna(subset=['Date'])
dropna_anomalies(df) == SelectSeq(df, LAMBDA r : r.Date # NaT)

\* sort_values('Date') sorts with numpy's default kind, quicksort, which
\* sorts up to InsertionSortMax rows by insertion: ascending, rows of equal
\* Date in their file order.
InsertionSortMax == 16

RECURSIVE Insert(_, _)
Insert(r, s) ==
    IF s = <<>> THEN <<r>>
    ELSE IF r.Date < Head(s).Date THEN <<r>> \o s
    ELSE <<Head(s)>> \o Insert(r, Tail(s))

RECURSIVE insertion_sort(_)
insertion_sort(df) ==
    IF df = <<>> THEN <<>>
    ELSE Insert(df[Len(df)], insertion_sort(SubSeq(df, 1, Len(df) - 1)))

\* The orders of the rows of df that are ascending by Date.
AscendingOrders(df) ==
    {p \in [DOMAIN df -> DOMAIN df] :
        /\ \A i, j \in DOMAIN df : i # j => p[i] # p[j]
        /\ \A i, j \in DOMAIN df : i < j => df[p[i]].Date <= df[p[j]].Date}

\* Mutant of sort_values: the rows stay in file order.
sort_values_unsorted(df) == {df}

\* The tables sort_values('Date') can return, lines 35 and 41.  Above
\* InsertionSortMax rows quicksort partitions, and rows of equal Date come
\* in an order this model leaves open.
sort_values(df) ==
    IF Len(df) <= InsertionSortMax THEN {insertion_sort(df)}
    ELSE {[i \in DOMAIN df |-> df[p[i]]] : p \in AscendingOrders(df)}

LoadPrices(csv, major) == sort_values(dropna_prices(ParsePrices(csv, major)))

LoadAnomalies(csv, major) == sort_values(dropna_anomalies(ParseAnomalies(csv, major)))

\* ---------------------------------------------------------------- engine
\* Mutant of InvalidRange: the comparison is reversed.
InvalidRange_reversed(sd, ed) == sd < ed

\* line 57
InvalidRange(sd, ed) == sd > ed

\* pd.to_datetime(start_date), pd.to_datetime(end_date): 00:00 of the day.
Midnight(d) == Timestamp(d, 0)

\* lines 91-93 (also 68-70, 96-98, 101-103): the Date of the row is compared
\* with 00:00 of the two picked days.
InWindow(r, sd, ed, tk) ==
    r.Date >= Midnight(sd) /\ r.Date <= Midnight(ed) /\ r.Ticker = tk

\* lines 68-70 and 91-93
FilterPrices(df, sd, ed, tk) == SelectSeq(df, LAMBDA r : InWindow(r, sd, ed, tk))

\* full_data_df[name] == 1 for a model column of the table.
ColumnIsOne(r, name) == r.flags[name] = 1

\* Mutant of FilterAnomalies: the model's flag column is not tested.
FilterAnomalies_any_flag(df, sd, ed, tk, m) == SelectSeq(df, LAMBDA r : InWindow(r, sd, ed, tk))

\* lines 96-99 and 101-104
FilterAnomalies(df, sd, ed, tk, m) ==
    SelectSeq(df, LAMBDA r : InWindow(r, sd, ed, tk) /\ ColumnIsOne(r, m))

SameKey(l, r) == l.Date = r.Date /\ l.Ticker = r.Ticker

RECURSIVE Concat(_)
Concat(ss) == IF ss = <<>> THEN <<>> ELSE Head(ss) \o Concat(Tail(ss))

Matches(l, right) == SelectSeq(right, LAMBDA r : SameKey(l, r))

\* line 107: pd.merge(model_1_anomalies, model_2_anomalies, on=['Date', 'Ticker']);
\* the other columns of the two sides get the suffixes _x and _y.
OverlapRow(l, r) == [Date |-> l.Date, Ticker |-> l.Ticker, flags_x |-> l.flags, flags_y |-> r.flags]

\* Mutant of merge_overlap: a left join, a left row without a match is kept.
merge_overlap_left(left, right) ==
    Concat([i \in DOMAIN left |->
        IF Matches(left[i], right) = <<>> THEN <<OverlapRow(left[i], left[i])>>
        ELSE [j \in DOMAIN Matches(left[i], right) |->
                 OverlapRow(left[i], Matches(left[i], right)[j])]])

merge_overlap(left, right) ==
    Concat([i \in DOMAIN left |->
        [j \in DOMAIN Matches(left[i], right) |-> OverlapRow(left[i], Matches(left[i], right)[j])]])

\* lines 110-117: pd.merge(view, filtered_stock_df[['Date','Ticker','Adj Close']],
\* on=['Date','Ticker'], how='inner')
WithPrice(l, p) ==
    [f \in DOMAIN l \cup {"AdjClose"} |-> IF f = "AdjClose" THEN p.AdjClose ELSE l[f]]

\* Mutant of merge_price: how='left', a row without a price is kept with NaN.
merge_price_left(left, prices) ==
    Concat([i \in DOMAIN left |->
        IF Matches(left[i], prices) = <<>> THEN <<WithPrice(left[i], [AdjClose |-> NaN])>>
        ELSE [j \in DOMAIN Matches(left[i], prices) |->
                 WithPrice(left[i], Matches(left[i], prices)[j])]])

merge_price(left, prices) ==
    Concat([i \in DOMAIN left |->
        [j \in DOMAIN Matches(left[i], prices) |-> WithPrice(left[i], Matches(left[i], prices)[j])]])

\* --------------------------------------------------------------- actions
\* Before the first run: the two data files are on disk with at most np and
\* na rows, styles.css is there or not, no name of the script is bound yet
\* (the values below are placeholders until LoadData and Run bind them;
\* defined lists the views a run has bound).
Start(np, na) ==
    /\ pandas_major \in PandasMajors
    /\ css_file \in BOOLEAN
    /\ price_csv \in SeqsUpTo(PriceCsvRows, np)
    /\ anom_csv \in SeqsUpTo(AnomCsvRows, na)
    /\ pc = "start"
    /\ stock_df = <<>> /\ full_data_df = <<>>
    /\ start_date = 1 /\ end_date = 1 /\ selected_ticker = "ABC"
    /\ model_1 = "baseline" /\ model_2 = "baseline"
    /\ defined = {} /\ errors = <<>>
    /\ filtered_stock_df = <<>>
    /\ model_1_anomalies = <<>> /\ model_2_anomalies = <<>> /\ overlapping_anomalies = <<>>
    /\ model_1_merged = <<>> /\ model_2_merged = <<>> /\ overlapping_merged = <<>>
    /\ first_call = <<>> /\ repeated = FALSE

Init == Start(MaxPriceRows, MaxAnomRows)

InitRepeat == Start(MaxRepeatRows, MaxRepeatRows)

\* Lines 12-41.  Every run of the script starts here, with a fresh namespace.
LoadData ==
    /\ pc \in {"start", "done", "failed"}
    /\ pc' = "loaded"
    /\ stock_df' \in LoadPrices(price_csv, pandas_major)
    /\ full_data_df' \in LoadAnomalies(anom_csv, pandas_major)
    /\ defined' = {} /\ errors' = load_css(css_file)
    /\ start_date' = 1 /\ end_date' = 1 /\ selected_ticker' = "ABC"
    /\ model_1' = "baseline" /\ model_2' = "baseline"
    /\ filtered_stock_df' = <<>>
    /\ model_1_anomalies' = <<>> /\ model_2_anomalies' = <<>> /\ overlapping_anomalies' = <<>>
    /\ model_1_merged' = <<>> /\ model_2_merged' = <<>> /\ overlapping_merged' = <<>>
    /\ UNCHANGED <<build, files, history>>

\* Lines 44-45: the earliest and the latest Date of the price table, NaT
\* when the table has no row.
min_date(df) ==
    IF df = <<>> THEN NaT
    ELSE CHOOSE d \in {df[i].Date : i \in DOMAIN df} : \A j \in DOMAIN df : d <= df[j].Date

max_date(df) ==
    IF df = <<>> THEN NaT
    ELSE CHOOSE d \in {df[i].Date : i \in DOMAIN df} : \A j \in DOMAIN df : d >= df[j].Date

\* Line 46 over a price table with no row: the default of the date input is
\* NaT, which has no calendar date; the run ends there with an exception and
\* binds nothing.
RunWithoutDates ==
    /\ pc = "loaded"
    /\ min_date(stock_df) = NaT /\ max_date(stock_df) = NaT
    /\ pc' = "failed"
    /\ UNCHANGED <<build, files, tables, widgets, defined, errors, views, history>>

\* Mutant of Script: line 91 binds the filtered frame to the name stock_df
\* as well.
Script_rebinds_stock_df(sd, ed, tk, m1, m2) ==
    LET fs == FilterPrices(stock_df, sd, ed, tk)
        a1 == FilterAnomalies(full_data_df, sd, ed, tk, m1)
        a2 == FilterAnomalies(full_data_df, sd, ed, tk, m2)
        ov == merge_overlap(a1, a2)
        tab1 == IF fs = <<>> THEN <<MsgNoData>> ELSE <<>>
    IN
    /\ pc = "loaded"
    /\ min_date(stock_df) # NaT /\ max_date(stock_df) # NaT
    /\ pc' = "done"
    /\ start_date' = sd /\ end_date' = ed /\ selected_ticker' = tk
    /\ model_1' = m1 /\ model_2' = m2
    /\ stock_df' = fs /\ full_data_df' = full_data_df
    /\ UNCHANGED <<build, files>>
    /\ IF InvalidRange(sd, ed)
       THEN \* line 58
            /\ errors' = errors \o <<MsgRange>>
            /\ defined' = {}
            /\ UNCHANGED views
       ELSE \* lines 84 and 166 show the same text, one per tab
            /\ errors' = errors \o tab1 \o tab1
            /\ defined' = {"filtered_stock_df", "model_1_anomalies", "model_2_anomalies",
                           "overlapping_anomalies", "model_1_merged", "model_2_merged",
                           "overlapping_merged"}
            /\ filtered_stock_df' = fs
            /\ model_1_anomalies' = a1
            /\ model_2_anomalies' = a2
            /\ overlapping_anomalies' = ov
            /\ model_1_merged' = merge_price(a1, fs)
            /\ model_2_merged' = merge_price(a2, fs)
            /\ overlapping_merged' = merge_price(ov, fs)

\* Lines 43-166 with the widget values sd, ed, tk, m1, m2.  No statement
\* after line 41 binds stock_df or full_data_df or writes into their frames:
\* lines 68-70, 91-93 and 96-104 index them by a boolean mask, which makes
\* a new frame, and pd.merge makes a new frame.
Script(sd, ed, tk, m1, m2) ==
    LET fs == FilterPrices(stock_df, sd, ed, tk)
        a1 == FilterAnomalies(full_data_df, sd, ed, tk, m1)
        a2 == FilterAnomalies(full_data_df, sd, ed, tk, m2)
        ov == merge_overlap(a1, a2)
        tab1 == IF fs = <<>> THEN <<MsgNoData>> ELSE <<>>
    IN
    /\ pc = "loaded"
    /\ min_date(stock_df) # NaT /\ max_date(stock_df) # NaT
    /\ pc' = "done"
    /\ start_date' = sd /\ end_date' = ed /\ selected_ticker' = tk
    /\ model_1' = m1 /\ model_2' = m2
    /\ UNCHANGED tables
    /\ UNCHANGED <<build, files>>
    /\ IF InvalidRange(sd, ed)
       THEN \* line 58
            /\ errors' = errors \o <<MsgRange>>
            /\ defined' = {}
            /\ UNCHANGED views
       ELSE \* lines 84 and 166 show the same text, one per tab
            /\ errors' = errors \o tab1 \o tab1
            /\ defined' = {"filtered_stock_df", "model_1_anomalies", "model_2_anomalies",
                           "overlapping_anomalies", "model_1_merged", "model_2_merged",
                           "overlapping_merged"}
            /\ filtered_stock_df' = fs
            /\ model_1_anomalies' = a1
            /\ model_2_anomalies' = a2
            /\ overlapping_anomalies' = ov
            /\ model_1_merged' = merge_price(a1, fs)
            /\ model_2_merged' = merge_price(a2, fs)
            /\ overlapping_merged' = merge_price(ov, fs)

\* One run of the page.
Run(sd, ed, tk, m1, m2) == Script(sd, ed, tk, m1, m2) /\ UNCHANGED history

\* The widget values and the outcome of the state a run ends in.
Call ==
    [start_date |-> start_date, end_date |-> end_date, selected_ticker |-> selected_ticker,
     model_1 |-> model_1, model_2 |-> model_2,
     defined |-> defined, errors |-> errors, views |-> views]

\* One run of the page, the first one kept for comparison.
RunAgain(sd, ed, tk, m1, m2) ==
    /\ Script(sd, ed, tk, m1, m2)
    /\ first_call' = IF first_call = <<>> THEN <<Call'>> ELSE first_call
    /\ repeated' = (first_call # <<>>)

\* lines 48-49: the ticker selectbox offers the tickers of stock_df.
ticker_list(df) == {df[i].Ticker : i \in DOMAIN df}

Next ==
    \/ LoadData
    \/ RunWithoutDates
    \/ \E sd \in Dates, ed \in Dates, tk \in ticker_list(stock_df),
          m1 \in ModelInputs, m2 \in ModelInputs :
          Run(sd, ed, tk, m1, m2)

Spec == Init /\ [][Next]_vars

NextRepeat ==
    \/ LoadData
    \/ RunWithoutDates
    \/ \E sd \in Dates, ed \in Dates, tk \in ticker_list(stock_df),
          m1 \in ModelInputs, m2 \in ModelInputs :
          RunAgain(sd, ed, tk, m1, m2)

SpecRepeat == InitRepeat /\ [][NextRepeat]_vars

\* ------------------------------------------------------------ properties
Range(s) == {s[i] : i \in DOMAIN s}

Count(s, v) == Cardinality({i \in DOMAIN s : s[i] = v})

Keys(s) == {<<s[i].Date, s[i].Ticker>> : i \in DOMAIN s}

Ascending(s) == \A i \in DOMAIN s : \A j \in DOMAIN s : i < j => s[i].Date <= s[j].Date

\* What the charts plot of a joined view: Date, Ticker and Adj Close.
Plot(s) == [i \in DOMAIN s |-> <<s[i].Date, s[i].Ticker, s[i].AdjClose>>]

Has(name) == name \in defined

\* The calendar day of a loaded Date.
DayOf(ts) == ts \div TicksPerDay

\* The row is of the selected ticker and its day is within the closed range
\* of the two picked days.
Selected(r) ==
    r.Ticker = selected_ticker /\ start_date <= DayOf(r.Date) /\ DayOf(r.Date) <= end_date

\* C1 as claimed: when the range is valid, filtered_stock_df holds exactly
\* the loaded price rows of the selected ticker dated within
\* [start_date, end_date], both days included, each as often as the table
\* holds it, in ascending Date order.
C1_FilteredPricesExact ==
    (pc = "done" /\ Has("filtered_stock_df")) =>
        /\ Range(filtered_stock_df) \subseteq Range(stock_df)
        /\ \A r \in Range(stock_df) :
              Count(filtered_stock_df, r) = IF Selected(r) THEN Count(stock_df, r) ELSE 0
        /\ Ascending(filtered_stock_df)

\* The rows a joined model view must hold for model m: one per pair of a
\* loaded anomaly row (ticker, range, flag of m equal to 1) and a row of
\* filtered_stock_df with the same (Date, Ticker), carrying that row's price.
JoinedPairs(m) ==
    {ij \in (DOMAIN full_data_df) \X (DOMAIN filtered_stock_df) :
        /\ Selected(full_data_df[ij[1]])
        /\ full_data_df[ij[1]].flags[m] = 1
        /\ full_data_df[ij[1]].Date = filtered_stock_df[ij[2]].Date
        /\ full_data_df[ij[1]].Ticker = filtered_stock_df[ij[2]].Ticker}

JoinedRow(ij) ==
    [Date |-> full_data_df[ij[1]].Date, Ticker |-> full_data_df[ij[1]].Ticker,
     flags |-> full_data_df[ij[1]].flags, AdjClose |-> filtered_stock_df[ij[2]].AdjClose]

JoinedExact(view, m) ==
    /\ Len(view) = Cardinality(JoinedPairs(m))
    /\ \A ij \in JoinedPairs(m) :
          Count(view, JoinedRow(ij)) =
              Cardinality({kl \in JoinedPairs(m) : JoinedRow(kl) = JoinedRow(ij)})

\* C2: for each selected model, the joined view holds exactly the anomaly
\* rows of the ticker and range flagged 1 by that model whose (Date, Ticker)
\* occurs in filtered_stock_df, each with the Adj Close of the price row of
\* that key; no other row is in the view.
C2_JoinedViewsExact ==
    (pc = "done" /\ Has("model_1_merged") /\ Has("model_2_merged")) =>
        /\ JoinedExact(model_1_merged, model_1)
        /\ JoinedExact(model_2_merged, model_2)

\* One flagged anomaly is joined to its price, and another anomaly row of
\* the ticker and range is flagged without a price row of its key, or is
\* not flagged by the model.
C2_Witness ==
    /\ pc = "done" /\ Has("model_1_merged")
    /\ Len(model_1_merged) = 1
    /\ Len(full_data_df) = 2
    /\ \E i \in DOMAIN full_data_df :
          /\ Selected(full_data_df[i])
          /\ \/ /\ full_data_df[i].flags[model_1] = 1
                /\ <<full_data_df[i].Date, full_data_df[i].Ticker>> \notin Keys(filtered_stock_df)
             \/ full_data_df[i].flags[model_1] = 0

\* C3: the keys (Date, Ticker) of the overlap are exactly the keys the two
\* model views share, before the price join and after it.
C3_OverlapKeys ==
    (pc = "done" /\ Has("overlapping_merged")) =>
        /\ Keys(overlapping_anomalies) = Keys(model_1_anomalies) \cap Keys(model_2_anomalies)
        /\ Keys(overlapping_merged) = Keys(model_1_merged) \cap Keys(model_2_merged)

\* Two different models, one key flagged by both and joined to a price, one
\* key flagged by the first model only.
C3_Witness ==
    /\ pc = "done" /\ Has("overlapping_merged")
    /\ model_1 # model_2
    /\ overlapping_merged # <<>>
    /\ Keys(model_1_merged) # Keys(overlapping_merged)

\* C4 as claimed: when both selected models are the same, the overlap plots
\* the same rows as the model view, as many of them, whatever the anomaly
\* table holds.
C4_SelfOverlapEqualsView ==
    (pc = "done" /\ Has("overlapping_merged") /\ model_1 = model_2) =>
        Plot(overlapping_merged) = Plot(model_1_merged)

\* C5: no row of a joined view lacks its Adj Close.
C5_JoinSafety ==
    pc = "done" =>
        /\ \A r \in Range(model_1_merged) : "AdjClose" \in DOMAIN r /\ r.AdjClose # NaN
        /\ \A r \in Range(model_2_merged) : "AdjClose" \in DOMAIN r /\ r.AdjClose # NaN
        /\ \A r \in Range(overlapping_merged) : "AdjClose" \in DOMAIN r /\ r.AdjClose # NaN

\* The price file has a row of the selected ticker and range whose Adj Close
\* does not parse, an anomaly flagged by both models has that key, and the
\* joined views are not empty.
C5_Witness ==
    /\ pc = "done" /\ Has("overlapping_merged")
    /\ model_1_merged # <<>> /\ model_2_merged # <<>> /\ overlapping_merged # <<>>
    /\ \E i \in DOMAIN price_csv :
          /\ price_csv[i].AdjClose = Junk
          /\ price_csv[i].Date.kind = "date"
          /\ <<price_csv[i].Date.day * TicksPerDay + price_csv[i].Date.tick,
               price_csv[i].Ticker>> \in Keys(overlapping_merged)

\* C6: a run with start_date > end_date shows the range error as its last
\* message and binds none of filtered_stock_df, the model views and the
\* overlap.
C6_InvalidRangeRejected ==
    (pc = "done" /\ start_date > end_date) =>
        /\ errors # <<>> /\ errors[Len(errors)] = MsgRange
        /\ MsgNoData \notin Range(errors)
        /\ defined = {}
        /\ views = <<<<>>, <<>>, <<>>, <<>>, <<>>, <<>>, <<>>>>

\* A rejected run over tables that hold, for the selected ticker, a price
\* and an anomaly flagged by the first model.
C6_Witness ==
    /\ pc = "done" /\ start_date > end_date
    /\ \E r \in Range(stock_df) : r.Ticker = selected_ticker
    /\ \E a \in Range(full_data_df) : a.Ticker = selected_ticker /\ a.flags[model_1] = 1

\* The Date column of a file as line 33 (line 40) leaves it, and whether
\* row i of the file has parsed: no NaT in Date and, in the price file, no
\* NaN in Adj Close.
ParsedDates(csv) == to_datetime(DateColumn(csv), pandas_major)

PriceRowParses(i) ==
    ParsedDates(price_csv)[i] # NaT /\ to_numeric(price_csv[i].AdjClose) # NaN

AnomRowParses(i) == ParsedDates(anom_csv)[i] # NaT

\* The table row that row i of a file is read as.
PriceRowRead(i) ==
    [Date |-> ParsedDates(price_csv)[i], Ticker |-> price_csv[i].Ticker,
     AdjClose |-> to_numeric(price_csv[i].AdjClose)]

AnomRowRead(i) ==
    [Date |-> ParsedDates(anom_csv)[i], Ticker |-> anom_csv[i].Ticker,
     flags |-> anom_csv[i].flags]

\* The rows of a file that parse and are read as the same table row as row i.
PriceRowsReadAs(i) ==
    {j \in DOMAIN price_csv : PriceRowParses(j) /\ PriceRowRead(j) = PriceRowRead(i)}

AnomRowsReadAs(i) ==
    {j \in DOMAIN anom_csv : AnomRowParses(j) /\ AnomRowRead(j) = AnomRowRead(i)}

\* C8: after loading, stock_df holds exactly the rows of the price file whose
\* Date and Adj Close both parse and full_data_df exactly the rows of the
\* anomaly file whose Date parses, each as often as the file holds it, and
\* both tables are in ascending Date order; a row that does not parse shows
\* no error.
C8_LoaderSilentDrop ==
    pc = "loaded" =>
        /\ Len(stock_df) = Cardinality({i \in DOMAIN price_csv : PriceRowParses(i)})
        /\ \A i \in DOMAIN price_csv :
              PriceRowParses(i) =>
                  Count(stock_df, PriceRowRead(i)) = Cardinality(PriceRowsReadAs(i))
        /\ Len(full_data_df) = Cardinality({i \in DOMAIN anom_csv : AnomRowParses(i)})
        /\ \A i \in DOMAIN anom_csv :
              AnomRowParses(i) =>
                  Count(full_data_df, AnomRowRead(i)) = Cardinality(AnomRowsReadAs(i))
        /\ Ascending(stock_df) /\ Ascending(full_data_df)
        /\ Range(errors) \subseteq {MsgCss}

\* The price file has a row that does not parse and a row that does; the
\* anomaly file has two rows that parse, the later one first.
C8_Witness ==
    /\ pc = "loaded"
    /\ Len(price_csv) = 2 /\ Len(stock_df) = 1
    /\ Len(anom_csv) = 2 /\ Len(full_data_df) = 2
    /\ ParsedDates(anom_csv)[1] > ParsedDates(anom_csv)[2]

\* C9: when no price row is in the filter, a run with a valid range is not
\* rejected and binds three empty joined views.
C9_EmptyPricesEmptyViews ==
    (pc = "done" /\ start_date <= end_date /\ filtered_stock_df = <<>>) =>
        /\ MsgRange \notin Range(errors)
        /\ Has("model_1_merged") /\ Has("model_2_merged") /\ Has("overlapping_merged")
        /\ model_1_merged = <<>> /\ model_2_merged = <<>> /\ overlapping_merged = <<>>

\* No price row in the filter while both models flag an anomaly of the
\* ticker and range.
C9_Witness ==
    /\ pc = "done" /\ Has("overlapping_merged")
    /\ filtered_stock_df = <<>>
    /\ overlapping_anomalies # <<>>

\* The run that has just ended had the widget values of the first run, and
\* its outcome (the views bound, their rows and the messages shown) is that
\* of the first run.
SameArguments ==
    /\ first_call[1].start_date = start_date /\ first_call[1].end_date = end_date
    /\ first_call[1].selected_ticker = selected_ticker
    /\ first_call[1].model_1 = model_1 /\ first_call[1].model_2 = model_2

SameResults ==
    /\ first_call[1].defined = defined
    /\ first_call[1].errors = errors
    /\ first_call[1].views = views

====
